---- MODULE Spec2Model ----
(***************************************************************************)
(* Range tombstones of range_tombstone.hh: the bound comparator, the       *)
(* bound-kind mappings, flip, the merge of two range tombstones with the   *)
(* same start bound, relocation of a range tombstone that is linked in an  *)
(* intrusive set, and the streaming accumulator.                           *)
(***************************************************************************)
EXTENDS Integers, Sequences, FiniteSets, TLC

\* Number of clustering columns of the schema (longest clustering prefix).
NumCols == 2

\* Values a clustering column takes; the column type orders them as integers.
Comps == {0, 1}

\* Deletion timestamps and deletion times of the tombstones drawn as inputs.
Timestamps == {1, 2}
DeletionTimes == {0, 1}

VARIABLES
    pc,         \* position of the running scenario
    b1, b2, b3, \* comparator inputs: [prefix, kind], kind "none" = bare prefix
    lt,         \* lt[<<i, j>>]: what compare returned for (b_i, b_j)
    eq,         \* eq[<<i, j>>]: what bound_view::equal returned for (b_i, b_j)
    rt,         \* the range tombstone flip() acts on
    rt0,        \* its value when constructed
    flips,      \* number of flip() calls made on rt
    this,       \* the range tombstone apply() is called on
    this0,      \* its value before the call
    src,        \* the argument of apply()
    ret,        \* what apply() returned: <<>> or <<remainder>>
    alive,      \* storage locations that hold a constructed range tombstone
    val,        \* val[s]: the fields of the range tombstone at location s
    tree,       \* the intrusive set, as the sequence of linked locations in order
    last,       \* the last operation on the locations
    partition_tombstone,    \* _partition_tombstone
    range_tombstones,       \* _range_tombstones, front first
    current_tombstone,      \* _current_tombstone
    reversed,               \* _reversed
    applied,    \* the range tombstones passed to apply() since the last clear()
    last_start, \* <<start bound of the last apply()>>, <<>> if none
    last_ck,    \* <<key of the last tombstone_for_row()>>, <<>> if none
    result      \* <<what the last call, a tombstone_for_row(), returned>>

cmpVars == <<b1, b2, b3, lt, eq>>
flipVars == <<rt, rt0, flips>>
applyVars == <<this, this0, src, ret>>
moveVars == <<alive, val, tree, last>>
accVars == <<partition_tombstone, range_tombstones, current_tombstone, reversed,
             applied, last_start, last_ck, result>>
vars == <<pc, cmpVars, flipVars, applyVars, moveVars, accVars>>

------------------------------------------------------------------------------
\* bound_kind and its mappings

Kinds == {"excl_end", "incl_start", "incl_end", "excl_start"}

\* a wrong table: an exclusive end flipped into an inclusive start
flip_bound_kind_mut(bk) ==
    CASE bk = "excl_end" -> "incl_start"
      [] bk = "incl_end" -> "incl_start"
      [] bk = "excl_start" -> "excl_end"
      [] bk = "incl_start" -> "incl_end"

flip_bound_kind(bk) ==
    CASE bk = "excl_end" -> "excl_start"
      [] bk = "incl_end" -> "incl_start"
      [] bk = "excl_start" -> "excl_end"
      [] bk = "incl_start" -> "incl_end"

\* weight(bound_kind): start-like kinds weigh -1, end-like kinds +1
weight(k) ==
    CASE k = "excl_end" -> -1
      [] k = "incl_start" -> -1
      [] k = "incl_end" -> 1
      [] k = "excl_start" -> 1

\* invert_kind(bound_kind): the kind that abuts k at the same prefix
invert_kind(k) ==
    CASE k = "excl_end" -> "incl_start"
      [] k = "incl_start" -> "excl_end"
      [] k = "incl_end" -> "excl_start"
      [] k = "excl_start" -> "incl_end"

------------------------------------------------------------------------------
\* clustering key prefixes

Prefixes == UNION {[1..n -> Comps] : n \in 0..NumCols}

\* tri_compare of one column
tri_compare(x, y) == IF x < y THEN -1 ELSE IF x > y THEN 1 ELSE 0

\* prefix_equality_tri_compare: the first non-zero column comparison over the
\* columns both prefixes have, 0 when one runs out
RECURSIVE prefix_equality_tri_compare(_, _, _)
prefix_equality_tri_compare(p1, p2, i) ==
    IF i > Len(p1) \/ i > Len(p2) THEN 0
    ELSE LET c == tri_compare(p1[i], p2[i])
         IN  IF c # 0 THEN c ELSE prefix_equality_tri_compare(p1, p2, i + 1)

\* clustering_key_prefix::equal
prefix_equal(p1, p2) == p1 = p2

------------------------------------------------------------------------------
\* bound_view and bound_view::compare

bound_view(prefix, kind) == [prefix |-> prefix, kind |-> kind]

\* a slip in the length tie-break: the shorter prefix goes after its
\* extensions when start-like and before them when end-like
compare_mut(p1, w1, p2, w2) ==
    LET res == prefix_equality_tri_compare(p1, p2, 1)
        d1 == Len(p1)
        d2 == Len(p2)
    IN  IF res # 0 THEN res < 0
        ELSE IF d1 = d2 THEN w1 < w2
        ELSE IF d1 < d2 THEN w1 > 0 ELSE w2 <= 0

\* a slip in the equal-length case: <= for <
compare_le(p1, w1, p2, w2) ==
    LET res == prefix_equality_tri_compare(p1, p2, 1)
        d1 == Len(p1)
        d2 == Len(p2)
    IN  IF res # 0 THEN res < 0
        ELSE IF d1 = d2 THEN w1 <= w2
        ELSE IF d1 < d2 THEN w1 <= 0 ELSE w2 > 0

compare(p1, w1, p2, w2) ==
    LET res == prefix_equality_tri_compare(p1, p2, 1)
        d1 == Len(p1)
        d2 == Len(p2)
    IN  IF res # 0 THEN res < 0
        ELSE IF d1 = d2 THEN w1 < w2
        ELSE IF d1 < d2 THEN w1 <= 0 ELSE w2 > 0

compare_bound_prefix(b, p) == compare(b.prefix, weight(b.kind), p, 0)

compare_prefix_bound(p, b) == compare(p, 0, b.prefix, weight(b.kind))

compare_bounds(x, y) ==
    compare(x.prefix, weight(x.kind), y.prefix, weight(y.kind))

equal(x, y) == x.kind = y.kind /\ prefix_equal(x.prefix, y.prefix)

adjacent(x, y) == invert_kind(y.kind) = x.kind /\ prefix_equal(x.prefix, y.prefix)

bottom == bound_view(<<>>, "incl_start")

top == bound_view(<<>>, "incl_end")

------------------------------------------------------------------------------
\* tombstone

NoTombstone == [timestamp |-> 0, deletion_time |-> 0]

Tombstones == [timestamp : Timestamps, deletion_time : DeletionTimes]

\* tombstones are ordered by deletion timestamp
tombstone_less(t1, t2) == t1.timestamp < t2.timestamp

------------------------------------------------------------------------------
\* range_tombstone

range_tombstone(start, start_kind, end, end_kind, tomb) ==
    [start |-> start, start_kind |-> start_kind,
     end |-> end, end_kind |-> end_kind, tomb |-> tomb]

start_bound(r) == bound_view(r.start, r.start_kind)

\* a copy-paste slip: the end bound built on the start prefix
end_bound_mut(r) == bound_view(r.start, r.end_kind)

end_bound(r) == bound_view(r.end, r.end_kind)

rt_equal(r, other) ==
    /\ r.tomb = other.tomb
    /\ equal(start_bound(r), start_bound(other))
    /\ equal(end_bound(r), end_bound(other))

\* flip(): swap the prefixes, swap the kinds, then flip each kind
flip(r) ==
    LET swapped == [r EXCEPT !.start = r.end, !.end = r.start,
                             !.start_kind = r.end_kind, !.end_kind = r.start_kind]
    IN  [swapped EXCEPT !.start_kind = flip_bound_kind(swapped.start_kind),
                        !.end_kind = flip_bound_kind(swapped.end_kind)]

\* apply(): the higher-priority tombstone wins (this on a tie), this is cut at
\* the smaller of the two end bounds, and what the loser covers beyond that is
\* returned as the remainder
apply(t, s) ==
    LET src_wins == tombstone_less(t.tomb, s.tomb)
        winner == IF src_wins THEN s ELSE t
        loser == IF src_wins THEN t ELSE s
        shared_end == IF compare_bounds(end_bound(s), end_bound(t))
                      THEN end_bound(s) ELSE end_bound(t)
    IN  [this |-> [t EXCEPT !.tomb = winner.tomb,
                            !.end = shared_end.prefix,
                            !.end_kind = shared_end.kind],
         ret |-> IF compare_bounds(shared_end, end_bound(loser))
                 THEN <<range_tombstone(shared_end.prefix, invert_kind(shared_end.kind),
                                        loser.end, loser.end_kind, loser.tomb)>>
                 ELSE <<>>]

\* clustering rows: full clustering keys
Rows == [1..NumCols -> Comps]

\* the row ck lies between the bounds of r
Covers(r, ck) ==
    /\ ~compare_prefix_bound(ck, start_bound(r))
    /\ ~compare_bound_prefix(end_bound(r), ck)

\* range tombstones as callers build them: a start kind, an end kind, and the
\* start bound before the end bound
StartKinds == {"incl_start", "excl_start"}
EndKinds == {"incl_end", "excl_end"}

RangeTombstones ==
    {r \in [start : Prefixes, start_kind : StartKinds,
            end : Prefixes, end_kind : EndKinds, tomb : Tombstones] :
        compare_bounds(start_bound(r), end_bound(r))}

AllRangeTombstones ==
    [start : Prefixes, start_kind : Kinds, end : Prefixes, end_kind : Kinds,
     tomb : Tombstones]

------------------------------------------------------------------------------
\* idle values of the variables a scenario does not use

NoInput == [prefix |-> <<>>, kind |-> "none"]
NoResult == [p \in {} |-> FALSE]
NoRt == range_tombstone(<<>>, "incl_start", <<>>, "incl_end", NoTombstone)

CmpIdle == b1 = NoInput /\ b2 = NoInput /\ b3 = NoInput /\ lt = NoResult /\ eq = NoResult
FlipIdle == rt = NoRt /\ rt0 = NoRt /\ flips = 0
ApplyIdle == this = NoRt /\ this0 = NoRt /\ src = NoRt /\ ret = <<>>
NoOp == [op |-> "none", dst |-> 0, src |-> 0, src_linked |-> FALSE, dst_linked |-> FALSE]
AccIdle ==
    /\ partition_tombstone = NoTombstone /\ range_tombstones = <<>>
    /\ current_tombstone = NoTombstone /\ reversed = FALSE
    /\ applied = {} /\ last_start = <<>> /\ last_ck = <<>> /\ result = <<>>
MoveIdle == alive = {} /\ val = <<>> /\ tree = <<>> /\ last = NoOp

------------------------------------------------------------------------------
\* Comparator scenario: three bounds or bare prefixes are compared pairwise.

CmpInputs == [prefix : Prefixes, kind : Kinds \cup {"none"}]

IsBound(x) == x.kind # "none"

\* the overload of compare::operator() the argument types select
Less(x, y) ==
    IF IsBound(x) /\ IsBound(y) THEN compare_bounds(x, y)
    ELSE IF IsBound(x) THEN compare_bound_prefix(x, y.prefix)
    ELSE IF IsBound(y) THEN compare_prefix_bound(x.prefix, y)
    ELSE compare(x.prefix, 0, y.prefix, 0)

CmpInit ==
    /\ pc = "cmp_start"
    /\ b1 \in CmpInputs /\ b2 \in CmpInputs /\ b3 \in CmpInputs
    /\ lt = NoResult /\ eq = NoResult
    /\ FlipIdle /\ ApplyIdle /\ MoveIdle /\ AccIdle

CompareAll ==
    /\ pc = "cmp_start"
    /\ LET b == <<b1, b2, b3>>
       IN  /\ lt' = [p \in (1..3) \X (1..3) |-> Less(b[p[1]], b[p[2]])]
           /\ eq' = [p \in (1..3) \X (1..3) |->
                        IsBound(b[p[1]]) /\ IsBound(b[p[2]]) /\ equal(b[p[1]], b[p[2]])]
    /\ pc' = "cmp_done"
    /\ UNCHANGED <<b1, b2, b3, flipVars, applyVars, moveVars, accVars>>

SpecCmp == CmpInit /\ [][CompareAll]_vars

\* C3: compare is a strict weak order over bounds and bare prefixes
\* (weights -1, 0, +1): it is irreflexive and transitive, being incomparable
\* is transitive, and two bounds that are equal() are never ordered.
C3_StrictWeakOrder ==
    pc = "cmp_done" =>
        /\ ~lt[<<1, 1>>]
        /\ ((lt[<<1, 2>>] /\ lt[<<2, 3>>]) => lt[<<1, 3>>])
        /\ ((~lt[<<1, 2>>] /\ ~lt[<<2, 1>>] /\ ~lt[<<2, 3>>] /\ ~lt[<<3, 2>>])
                => (~lt[<<1, 3>>] /\ ~lt[<<3, 1>>]))
        /\ (eq[<<1, 2>>] => (~lt[<<1, 2>>] /\ ~lt[<<2, 1>>]))

\* three inputs of three different weights in a chain across two prefix lengths
C3_Witness ==
    /\ pc = "cmp_done"
    /\ b1.kind = "incl_start" /\ b2.kind = "none" /\ b3.kind = "excl_start"
    /\ Len(b1.prefix) = 1 /\ Len(b2.prefix) = 2 /\ b3.prefix = b1.prefix
    /\ lt[<<1, 2>>] /\ lt[<<2, 3>>] /\ lt[<<1, 3>>]

\* x is a strict prefix of y
Extends(y, x) ==
    Len(x) < Len(y) /\ \A i \in 1..Len(x) : y[i] = x[i]

\* C4: Bound(p, incl_start) < Bound(p+x, incl_start) < Bound(p, incl_end);
\* a shorter start-like bound sorts before, and a shorter end-like bound
\* after, every longer prefix that extends it.
C4_TieBreak ==
    pc = "cmp_done" =>
        /\ ((b1.kind = "incl_start" /\ b2.kind = "incl_start" /\ b3.kind = "incl_end"
              /\ b3.prefix = b1.prefix /\ Extends(b2.prefix, b1.prefix)
              /\ Len(b2.prefix) = Len(b1.prefix) + 1)
                => (lt[<<1, 2>>] /\ lt[<<2, 3>>]))
        /\ ((IsBound(b1) /\ weight(b1.kind) <= 0 /\ Extends(b2.prefix, b1.prefix))
                => (lt[<<1, 2>>] /\ ~lt[<<2, 1>>]))
        /\ ((IsBound(b3) /\ weight(b3.kind) > 0 /\ Extends(b2.prefix, b3.prefix))
                => (lt[<<2, 3>>] /\ ~lt[<<3, 2>>]))

C4_Witness ==
    /\ pc = "cmp_done"
    /\ b1 = bound_view(<<1>>, "incl_start")
    /\ b2 = bound_view(<<1, 0>>, "incl_start")
    /\ b3 = bound_view(<<1>>, "incl_end")
    /\ lt[<<1, 2>>] /\ lt[<<2, 3>>]

\* C9 (as claimed): bounds on the same prefix are ordered by polarity, and two
\* of the same polarity are order-equivalent only if they have the same kind.
C9_SamePolarityOnlyIfSameKind ==
    (pc = "cmp_done" /\ IsBound(b1) /\ IsBound(b2) /\ prefix_equal(b1.prefix, b2.prefix)) =>
        /\ ((weight(b1.kind) < 0 /\ weight(b2.kind) > 0) => lt[<<1, 2>>])
        /\ ((weight(b1.kind) = weight(b2.kind) /\ ~lt[<<1, 2>>] /\ ~lt[<<2, 1>>])
                => b1.kind = b2.kind)

------------------------------------------------------------------------------
\* Flip scenario: a range tombstone is flipped repeatedly.

MaxFlips == 2

FlipInit ==
    /\ pc = "flip"
    /\ rt \in AllRangeTombstones
    /\ rt0 = rt
    /\ flips = 0
    /\ CmpIdle /\ ApplyIdle /\ MoveIdle /\ AccIdle

Flip ==
    /\ pc = "flip"
    /\ flips < MaxFlips
    /\ rt' = flip(rt)
    /\ flips' = flips + 1
    /\ UNCHANGED <<pc, rt0, cmpVars, applyVars, moveVars, accVars>>

SpecFlip == FlipInit /\ [][Flip]_vars

\* C5: flipping a range tombstone twice gives a range tombstone equal() to
\* the original.
C5_FlipInvolution == flips = 2 => rt_equal(rt, rt0)

C5_Witness ==
    /\ flips = 2
    /\ rt0.start_kind = "excl_start" /\ rt0.end_kind = "excl_end"
    /\ rt0.start # rt0.end
    /\ rt = rt0

------------------------------------------------------------------------------
\* Merge scenario: this.apply(src) for two range tombstones with the same
\* start bound.

ApplyInit ==
    /\ pc = "apply_start"
    /\ this \in RangeTombstones
    /\ src \in RangeTombstones
    /\ equal(start_bound(this), start_bound(src))
    /\ this0 = this
    /\ ret = <<>>
    /\ CmpIdle /\ FlipIdle /\ MoveIdle /\ AccIdle

Apply ==
    /\ pc = "apply_start"
    /\ LET r == apply(this, src)
       IN  this' = r.this /\ ret' = r.ret
    /\ pc' = "apply_done"
    /\ UNCHANGED <<this0, src, cmpVars, flipVars, moveVars, accVars>>

SpecApply == ApplyInit /\ [][Apply]_vars

\* the smaller of the two original end bounds, as <<prefix, kind>>
MinEnd ==
    IF compare(src.end, weight(src.end_kind), this0.end, weight(this0.end_kind))
    THEN <<src.end, src.end_kind>> ELSE <<this0.end, this0.end_kind>>

\* the operand whose tombstone loses: src unless src's timestamp is higher
Loser == IF this0.tomb.timestamp < src.tomb.timestamp THEN this0 ELSE src

\* C2: after A.apply(B) with equal start bounds, A keeps its start bound, ends
\* at min(A.end_bound, B.end_bound) and carries the higher-priority tombstone
\* (A's own on a tie); a remainder is returned iff the lower-priority
\* tombstone's range extends strictly beyond that minimum, and it then ends at
\* the loser's end bound and carries the loser's tombstone.
C2_ApplyResult ==
    pc = "apply_done" =>
        /\ this.start = this0.start /\ this.start_kind = this0.start_kind
        /\ <<this.end, this.end_kind>> = MinEnd
        /\ this.tomb = (IF this0.tomb.timestamp < src.tomb.timestamp
                        THEN src.tomb ELSE this0.tomb)
        /\ (ret # <<>>) =
              compare(MinEnd[1], weight(MinEnd[2]), Loser.end, weight(Loser.end_kind))
        /\ (ret # <<>> =>
              (/\ ret[1].end = Loser.end
               /\ ret[1].end_kind = Loser.end_kind
               /\ ret[1].tomb = Loser.tomb))

\* a tie on the timestamp with src the longer range: this keeps its own
\* tombstone and src's tail comes back as the remainder
C2_Witness ==
    /\ pc = "apply_done"
    /\ this0.tomb.timestamp = src.tomb.timestamp /\ this0.tomb # src.tomb
    /\ this0.end = <<0>> /\ src.end = <<1, 1>>
    /\ this.tomb = this0.tomb /\ this.end = <<0>>
    /\ ret # <<>> /\ ret[1].tomb = src.tomb /\ ret[1].end = <<1, 1>>

\* C8 (as claimed): a returned remainder starts after the end bound of this,
\* as ordered by compare, at this's end prefix with the complementary kind.
C8_RemainderAfterThis ==
    (pc = "apply_done" /\ ret # <<>>) =>
        /\ compare(this.end, weight(this.end_kind),
                   ret[1].start, weight(ret[1].start_kind))
        /\ ret[1].start = this.end
        /\ ret[1].start_kind = invert_kind(this.end_kind)

\* highest deletion timestamp among the range tombstones of S that cover ck
\* (0: none covers it)
RECURSIVE MaxTimestamp(_)
MaxTimestamp(S) ==
    IF S = {} THEN 0
    ELSE LET x == CHOOSE y \in S : TRUE
             m == MaxTimestamp(S \ {x})
         IN  IF x.tomb.timestamp > m THEN x.tomb.timestamp ELSE m

Covering(S, ck) == {r \in S : Covers(r, ck)}

\* C10 (as claimed): apply loses no deletion: at every row the highest
\* priority covering it among this and the remainder after the call equals
\* the highest priority covering it among the two operands before the call.
C10_NoDeletionLost ==
    pc = "apply_done" =>
        \A ck \in Rows :
            MaxTimestamp(Covering({this} \cup {ret[i] : i \in DOMAIN ret}, ck))
                = MaxTimestamp(Covering({this0, src}, ck))

------------------------------------------------------------------------------
\* Relocation scenario: range tombstones live at storage locations, some of
\* them linked into one intrusive set ordered by start bound; they are
\* constructed, inserted, erased, destroyed, moved and swapped.

NSlots == 3

Slots == 1..NSlots

\* the values constructed here: two ranges with different start bounds
MoveValues ==
    {range_tombstone(<<0>>, "incl_start", <<1>>, "incl_end",
                     [timestamp |-> 1, deletion_time |-> 0]),
     range_tombstone(<<1>>, "incl_start", <<1>>, "incl_end",
                     [timestamp |-> 1, deletion_time |-> 0])}

Range(q) == {q[i] : i \in DOMAIN q}

is_linked(t, s) == s \in Range(t)

\* range_tombstone::compare: order by start bound
rt_compare(r1, r2) == compare_bounds(start_bound(r1), start_bound(r2))

Without(q, s) == SelectSeq(q, LAMBDA x : x # s)

\* the values the set holds, in its order
ContainerValues == [i \in DOMAIN tree |-> val[tree[i]]]

\* a moved-from range tombstone: its prefixes are moved out, its kinds and
\* tombstone stay
moved_from(r) == [r EXCEPT !.start = <<>>, !.end = <<>>]

\* a slip: the source's node is reset without putting this in its place
update_node_mut(t, self, other) ==
    IF is_linked(t, other) THEN Without(t, other) ELSE t

\* update_node(other_link): replace_node(other, this), then init(other)
update_node(t, self, other) ==
    IF is_linked(t, other)
    THEN [i \in DOMAIN t |-> IF t[i] = other THEN self ELSE t[i]]
    ELSE t

\* move_assign(rt): the fields of src go to dst, src is left moved-from
move_assign(v, dst, source) ==
    IF dst = source THEN v
    ELSE [v EXCEPT ![dst] = v[source], ![source] = moved_from(v[source])]

MoveInit ==
    /\ pc = "move"
    /\ alive = {}
    /\ val = [s \in Slots |-> NoRt]
    /\ tree = <<>>
    /\ last = NoOp
    /\ CmpIdle /\ FlipIdle /\ ApplyIdle /\ AccIdle

Op(o, d, s) ==
    [op |-> o, dst |-> d, src |-> s,
     src_linked |-> is_linked(tree, s), dst_linked |-> is_linked(tree, d)]

\* range_tombstone(start, start_kind, end, end_kind, tomb) at a free location
Construct(s, v) ==
    /\ pc = "move"
    /\ s \notin alive
    /\ alive' = alive \cup {s}
    /\ val' = [val EXCEPT ![s] = v]
    /\ last' = Op("construct", s, s)
    /\ UNCHANGED <<pc, tree, cmpVars, flipVars, applyVars, accVars>>

\* destructor: the auto_unlink hook takes the object out of the set
Destroy(s) ==
    /\ pc = "move"
    /\ s \in alive
    /\ alive' = alive \ {s}
    /\ val' = [val EXCEPT ![s] = NoRt]
    /\ tree' = Without(tree, s)
    /\ last' = Op("destroy", s, s)
    /\ UNCHANGED <<pc, cmpVars, flipVars, applyVars, accVars>>

\* container_type::insert: a set, so no insertion beside an equivalent element
Insert(s) ==
    /\ pc = "move"
    /\ s \in alive
    /\ ~is_linked(tree, s)
    /\ \A i \in DOMAIN tree :
          rt_compare(val[tree[i]], val[s]) \/ rt_compare(val[s], val[tree[i]])
    /\ LET n == Cardinality({i \in DOMAIN tree : rt_compare(val[tree[i]], val[s])})
       IN  tree' = SubSeq(tree, 1, n) \o <<s>> \o SubSeq(tree, n + 1, Len(tree))
    /\ last' = Op("insert", s, s)
    /\ UNCHANGED <<pc, alive, val, cmpVars, flipVars, applyVars, accVars>>

\* container_type::erase
Erase(s) ==
    /\ pc = "move"
    /\ is_linked(tree, s)
    /\ tree' = Without(tree, s)
    /\ last' = Op("erase", s, s)
    /\ UNCHANGED <<pc, alive, val, cmpVars, flipVars, applyVars, accVars>>

\* range_tombstone(range_tombstone&& rt): construct from rt's fields at a
\* free location, then update_node(rt._link)
MoveConstruct(d, s) ==
    /\ pc = "move"
    /\ d \notin alive
    /\ s \in alive
    /\ alive' = alive \cup {d}
    /\ val' = move_assign(val, d, s)
    /\ tree' = update_node(tree, d, s)
    /\ last' = Op("move_ctor", d, s)
    /\ UNCHANGED <<pc, cmpVars, flipVars, applyVars, accVars>>

\* operator=(range_tombstone&& rt): update_node(rt._link), then move_assign.
\* replace_node requires that the new node is in no tree and differs from the
\* old one; when rt is linked and this is linked too (or is rt itself) the
\* node pointers of the set are broken and nothing more is known of it: the
\* scenario ends at "corrupt".
MoveAssign(d, s) ==
    /\ pc = "move"
    /\ d \in alive
    /\ s \in alive
    /\ IF is_linked(tree, s) /\ (is_linked(tree, d) \/ d = s)
       THEN pc' = "corrupt" /\ tree' = tree
       ELSE pc' = pc /\ tree' = update_node(tree, d, s)
    /\ val' = move_assign(val, d, s)
    /\ last' = Op("move_assign", d, s)
    /\ UNCHANGED <<alive, cmpVars, flipVars, applyVars, accVars>>

\* swap(rt1, rt2): tmp(move(rt2), without_link), rt2.move_assign(rt1),
\* rt1.move_assign(tmp): the fields are exchanged, no link is touched
Swap(a, b) ==
    /\ pc = "move"
    /\ a \in alive
    /\ b \in alive
    /\ val' = [val EXCEPT ![a] = val[b], ![b] = val[a]]
    /\ last' = Op("swap", a, b)
    /\ UNCHANGED <<pc, alive, tree, cmpVars, flipVars, applyVars, accVars>>

MoveNext ==
    \/ \E s \in Slots, v \in MoveValues : Construct(s, v)
    \/ \E s \in Slots : Destroy(s)
    \/ \E s \in Slots : Insert(s)
    \/ \E s \in Slots : Erase(s)
    \/ \E d \in Slots, s \in Slots : MoveConstruct(d, s)
    \/ \E d \in Slots, s \in Slots : MoveAssign(d, s)
    \/ \E a \in Slots, b \in Slots : Swap(a, b)

SpecMove == MoveInit /\ [][MoveNext]_vars

\* C6 (as claimed): when a linked range tombstone is moved or swapped with
\* another range tombstone, the set holds the same values in the same order
\* afterwards, and the source of a move is no longer linked.
C6_MembershipFollowsValue ==
    [][(/\ last'.op \in {"move_ctor", "move_assign", "swap"}
        /\ last'.dst # last'.src
        /\ \/ last'.op # "swap" /\ last'.src_linked /\ ~last'.dst_linked
           \/ last'.op = "swap" /\ (last'.src_linked \/ last'.dst_linked))
          => (/\ ContainerValues' = ContainerValues
              /\ (last'.op # "swap" => ~is_linked(tree', last'.src)))]_vars

\* C6 (amended): a linked range tombstone moved by move construction, or by
\* move assignment into another range tombstone that is not linked, leaves
\* the set holding the same values in the same order, with the destination
\* linked and the source not; swap exchanges the fields of the two range
\* tombstones and leaves every link where it was.
C6_MoveCarriesLink ==
    [][/\ ((/\ last'.op \in {"move_ctor", "move_assign"}
            /\ last'.src_linked /\ ~last'.dst_linked /\ last'.dst # last'.src)
              => (/\ ContainerValues' = ContainerValues
                  /\ ~is_linked(tree', last'.src)
                  /\ is_linked(tree', last'.dst)))
       /\ (last'.op = "swap"
              => (/\ tree' = tree
                  /\ val'[last'.dst] = val[last'.src]
                  /\ val'[last'.src] = val[last'.dst]))]_vars

\* a linked range tombstone of a two-element set has just been move-assigned
\* to an unlinked one, which is now in the set in its place
C6_Witness ==
    /\ last.op = "move_assign"
    /\ last.src_linked /\ ~last.dst_linked
    /\ Len(tree) = 2
    /\ is_linked(tree, last.dst) /\ ~is_linked(tree, last.src)
    /\ rt_compare(val[tree[1]], val[tree[2]])

------------------------------------------------------------------------------
\* Accumulator scenario: one range_tombstone_accumulator of a forward scan is
\* fed a partition tombstone, range tombstones and row keys in increasing
\* position order.

\* apply() calls made between two clear() calls
MaxApplied == 3

\* the tombstones and range tombstones fed to the accumulator: every range
\* over these prefixes, with either kind at each end
AccTombstones == {t \in Tombstones : t.deletion_time = 0}

AccPrefixes == {<<0>>, <<0, 1>>, <<1>>}

AccRangeTombstones ==
    {r \in RangeTombstones :
        r.tomb \in AccTombstones /\ r.start \in AccPrefixes /\ r.end \in AccPrefixes}

\* the higher-priority of two tombstones, the first on a tie
tombstone_max(t1, t2) == IF tombstone_less(t1, t2) THEN t2 ELSE t1

\* update_current_tombstone(): the partition tombstone and the buffered range
\* tombstones, whichever has the highest priority
RECURSIVE accumulate(_, _)
accumulate(t, q) ==
    IF q = <<>> THEN t ELSE accumulate(tombstone_max(t, Head(q).tomb), Tail(q))

update_current_tombstone(pt, q) == accumulate(pt, q)

\* drop_unneeded_tombstones(ck, w): the buffered entries that end before the
\* position are dropped (current_tombstone is then recomputed by the caller
\* of this operator from what is left)
drop_unneeded_tombstones(q, ck, w) ==
    SelectSeq(q, LAMBDA r : ~compare(r.end, weight(r.end_kind), ck, w))

\* the overlap resolution of apply(): the buffered entries are passed in
\* order; an entry or the new range tombstone is split where the other one
\* starts, pieces with the same start bound are merged with
\* range_tombstone::apply, and the remainder is carried to the next entry
RECURSIVE resolve_overlap(_, _)
resolve_overlap(q, pending) ==
    IF pending = <<>> THEN q
    ELSE IF q = <<>> THEN pending
    ELSE LET b == Head(q)
             n == pending[1]
         IN  IF ~compare_bounds(start_bound(n), end_bound(b))
             THEN <<b>> \o resolve_overlap(Tail(q), pending)
             ELSE IF ~compare_bounds(start_bound(b), end_bound(n))
             THEN <<n>> \o q
             ELSE IF compare_bounds(start_bound(b), start_bound(n))
             THEN <<[b EXCEPT !.end = n.start,
                              !.end_kind = invert_kind(n.start_kind)]>>
                  \o resolve_overlap(
                        <<[b EXCEPT !.start = n.start,
                                    !.start_kind = n.start_kind]>> \o Tail(q),
                        pending)
             ELSE IF compare_bounds(start_bound(n), start_bound(b))
             THEN <<[n EXCEPT !.end = b.start,
                              !.end_kind = invert_kind(b.start_kind)]>>
                  \o resolve_overlap(
                        q,
                        <<[n EXCEPT !.start = b.start,
                                    !.start_kind = b.start_kind]>>)
             ELSE LET r == apply(b, n)
                  IN  <<r.this>> \o resolve_overlap(Tail(q), r.ret)

\* range_tombstone_accumulator(s, reversed) with reversed = false
Init ==
    /\ pc = "acc"
    /\ partition_tombstone = NoTombstone
    /\ range_tombstones = <<>>
    /\ current_tombstone = NoTombstone
    /\ reversed = FALSE
    /\ applied = {}
    /\ last_start = <<>>
    /\ last_ck = <<>>
    /\ result = <<>>
    /\ CmpIdle /\ FlipIdle /\ ApplyIdle /\ MoveIdle

\* set_partition_tombstone(t)
SetPartitionTombstone(t) ==
    /\ pc = "acc"
    /\ partition_tombstone' = t
    /\ current_tombstone' = update_current_tombstone(t, range_tombstones)
    /\ result' = <<>>
    /\ UNCHANGED <<pc, range_tombstones, reversed, applied, last_start, last_ck,
                   cmpVars, flipVars, applyVars, moveVars>>

\* the position (prefix, weight) is after everything passed so far
Increasing(p, w) ==
    /\ last_start # <<>> =>
          compare(last_start[1].prefix, weight(last_start[1].kind), p, w)
    /\ last_ck # <<>> => compare(last_ck[1], 0, p, w)

\* apply(rt)
AccApply(r) ==
    /\ pc = "acc"
    /\ Cardinality(applied) < MaxApplied
    /\ Increasing(r.start, weight(r.start_kind))
    /\ LET kept == drop_unneeded_tombstones(range_tombstones, r.start,
                                            weight(r.start_kind))
       IN  /\ current_tombstone' = update_current_tombstone(partition_tombstone, kept)
           /\ range_tombstones' = resolve_overlap(kept, <<r>>)
    /\ applied' = applied \cup {r}
    /\ last_start' = <<start_bound(r)>>
    /\ result' = <<>>
    /\ UNCHANGED <<pc, partition_tombstone, reversed, last_ck,
                   cmpVars, flipVars, applyVars, moveVars>>

\* tombstone_for_row(ck)
TombstoneForRow(ck) ==
    /\ pc = "acc"
    /\ Increasing(ck, 0)
    /\ LET kept == drop_unneeded_tombstones(range_tombstones, ck, 0)
           cur == update_current_tombstone(partition_tombstone, kept)
       IN  /\ range_tombstones' = kept
           /\ current_tombstone' = cur
           /\ result' = <<cur>>
    /\ last_ck' = <<ck>>
    /\ UNCHANGED <<pc, partition_tombstone, reversed, applied, last_start,
                   cmpVars, flipVars, applyVars, moveVars>>

\* clear(): a new region begins
Clear ==
    /\ pc = "acc"
    /\ range_tombstones' = <<>>
    /\ current_tombstone' = NoTombstone
    /\ applied' = {}
    /\ last_start' = <<>>
    /\ last_ck' = <<>>
    /\ result' = <<>>
    /\ UNCHANGED <<pc, partition_tombstone, reversed,
                   cmpVars, flipVars, applyVars, moveVars>>

Next ==
    \/ \E t \in AccTombstones \cup {NoTombstone} : SetPartitionTombstone(t)
    \/ \E r \in AccRangeTombstones : AccApply(r)
    \/ \E ck \in Rows : TombstoneForRow(ck)
    \/ Clear

Spec == Init /\ [][Next]_vars

\* the tombstones that bear on row ck: the partition tombstone and those of
\* the applied range tombstones that cover ck
Candidates(ck) ==
    {partition_tombstone} \cup {r.tomb : r \in Covering(applied, ck)}

\* C1 (as claimed): tombstone_for_row(ck) returns the maximum-priority
\* tombstone among the partition tombstone and every applied range tombstone
\* whose range contains ck.
C1_RowTombstone ==
    result # <<>> =>
        /\ result[1] \in Candidates(last_ck[1])
        /\ \A t \in Candidates(last_ck[1]) : ~tombstone_less(result[1], t)

====
